---------------------------- MODULE Spec2Model ----------------------------
(***************************************************************************)
(* Model of the IMAP client transport engine of browserbox-imap.js:       *)
(* the line/literal framer (_onData), the server queue and its trampolined *)
(* drain, the response dispatcher, the command queue and send engine, the  *)
(* timers, close() and the error funnel (_onError).                        *)
(*                                                                         *)
(* Text is a sequence of characters.  In the engine specification a        *)
(* response line is a sequence of tokens (tag, command, attributes), each  *)
(* carried as one character, so the engine runs the same framer as the     *)
(* framer specification.                                                   *)
(***************************************************************************)
EXTENDS Integers, Sequences, FiniteSets, TLC

CR == "\r"
LF == "\n"

\* F(e) with e evaluated once
Bind(e, F(_)) == CHOOSE r \in {F(x) : x \in {e}} : TRUE

Range(s) == {s[i] : i \in 1..Len(s)}

-----------------------------------------------------------------------------
(* Bounds of the model                                                     *)

\* framer specification: streams of at most MaxTokens tokens, or of at most
\* MaxChars single characters
MaxTokens == 5
MaxChars == 4

\* engine specification: calls of enqueueCommand (logout included), chunks the
\* transport delivers, and calls of close() by the user
MaxCommands == 2
MaxData == 2
MaxUserCloses == 1

VARIABLES
    \* framer state (constructor, lines 95-97)
    incomingBuffer, command, literalRemaining,
    \* the client's fields (constructor, lines 72-88)
    serverQueue, processingServerData, connectionReady, globalAcceptUntagged,
    clientQueue, canSend, tagCounter, currentCommand,
    idleTimer,                          \* is the idle timer armed
    socketTimeoutTimer,                 \* how many socket timeouts are pending
    compressed, socketOnData,
    \* the socket: its readyState ("none" before connect()) and its handlers
    readyState, onclose, ondata, onerror,
    \* zero-delay timers that will call _processServerQueue (lines 449, 470)
    drainTimers,
    \* promises: one record per call of close(), the completion of every
    \* command by tag, and those of connect() and logout()
    closes, completion, connectPromise, logoutPromise,
    \* observation: tags of the commands written, the untagged responses
    \* dispatched since the current command was sent, what the last handler
    \* dispatched, and the chunks delivered so far
    written, sinceSend, lastDispatch, dataCount,
    \* framer specification only: the stream the server sends, how much of it
    \* has been delivered, and the responses handed to _addToServerQueue
    stream, delivered, framed, chunks

framerVars == <<incomingBuffer, command, literalRemaining>>
streamVars == <<stream, delivered, framed, chunks>>
engineVars == <<serverQueue, processingServerData, connectionReady, globalAcceptUntagged,
                clientQueue, canSend, tagCounter, currentCommand, idleTimer,
                socketTimeoutTimer, compressed, socketOnData, readyState, onclose,
                ondata, onerror, drainTimers, closes, completion, connectPromise,
                logoutPromise, written, sinceSend, lastDispatch, dataCount>>

-----------------------------------------------------------------------------
(* COMMAND_REGEX = /(\{(\d+)(\+)?\})?\r?\n/  (line 45)                     *)

Digits == {"0", "1", "2", "3", "4", "5", "6", "7", "8", "9"}

DigitValue(c) ==
    CASE c = "0" -> 0 [] c = "1" -> 1 [] c = "2" -> 2 [] c = "3" -> 3 [] c = "4" -> 4
      [] c = "5" -> 5 [] c = "6" -> 6 [] c = "7" -> 7 [] c = "8" -> 8 [] c = "9" -> 9

\* Number(match[2]) for a string of decimal digits
RECURSIVE Number(_)
Number(ds) ==
    IF ds = <<>> THEN 0
    ELSE 10 * Number(SubSeq(ds, 1, Len(ds) - 1)) + DigitValue(ds[Len(ds)])

NoMatch == [index |-> -1, length |-> 0, digits |-> <<>>]

\* the end of the run of digits that starts at position i (i itself if none)
RECURSIVE DigitsEnd(_, _)
DigitsEnd(s, i) ==
    IF i <= Len(s) /\ s[i] \in Digits THEN DigitsEnd(s, i + 1) ELSE i

\* length of \r?\n at position i of s, 0 if it does not match there
TerminatorAt(s, i) ==
    IF i <= Len(s) /\ s[i] = LF THEN 1
    ELSE IF i + 1 <= Len(s) /\ s[i] = CR /\ s[i + 1] = LF THEN 2
    ELSE 0

\* the regex without its (\+)? group: {N+} declares no literal
MatchAtNoPlus(s, i) ==
    IF s[i] = "{"
    THEN LET e == DigitsEnd(s, i + 1)
             t == TerminatorAt(s, e + 1)
         IN  IF e > i + 1 /\ e <= Len(s) /\ s[e] = "}" /\ t > 0
             THEN [index |-> i - 1, length |-> (e - i + 1) + t,
                   digits |-> SubSeq(s, i + 1, e - 1)]
             ELSE NoMatch
    ELSE LET t == TerminatorAt(s, i)
         IN  IF t > 0 THEN [index |-> i - 1, length |-> t, digits |-> <<>>]
             ELSE NoMatch

\* the regex tried at position i (1-based): the match record, or NoMatch
MatchAt(s, i) ==
    IF s[i] = "{"
    THEN LET e == DigitsEnd(s, i + 1)                       \* (\d+)
             p == IF e <= Len(s) /\ s[e] = "+" THEN e + 1 ELSE e   \* (\+)?
             t == TerminatorAt(s, p + 1)
         IN  IF e > i + 1 /\ p <= Len(s) /\ s[p] = "}" /\ t > 0
             THEN [index |-> i - 1, length |-> (p - i + 1) + t,
                   digits |-> SubSeq(s, i + 1, e - 1)]
             ELSE NoMatch
    ELSE LET t == TerminatorAt(s, i)
         IN  IF t > 0 THEN [index |-> i - 1, length |-> t, digits |-> <<>>]
             ELSE NoMatch

\* String.prototype.match without the g flag: the leftmost match
RegexMatch(s) ==
    LET hits == {i \in 1..Len(s) : MatchAt(s, i) # NoMatch}
    IN  IF hits = {} THEN NoMatch
        ELSE MatchAt(s, CHOOSE i \in hits : \A j \in hits : i <= j)

Substr(s, from, n) == SubSeq(s, from + 1, IF from + n > Len(s) THEN Len(s) ELSE from + n)
SubstrFrom(s, from) == SubSeq(s, from + 1, Len(s))

-----------------------------------------------------------------------------
(* _onData, lines 350-381: the framing loop.  A framer state is a record   *)
(* [buf, cmd, lit]; one pass of the loop either stops (no match, or the    *)
(* literal is not complete), consumes a literal body, consumes a line that *)
(* declares a literal, or completes a response.                            *)

FramerState(buf, cmd, lit) == [buf |-> buf, cmd |-> cmd, lit |-> lit]

\* one pass of the loop without the wait of lines 351-354: a literal body is
\* taken from the buffer even when the buffer does not hold all of it yet
LoopPassNoWait(st0) ==
    Bind(st0, LAMBDA st : Bind(RegexMatch(st.buf), LAMBDA match :
        IF match = NoMatch
        THEN [kind |-> "stop", st |-> st]
        ELSE IF st.lit # 0
        THEN [kind |-> "more",
              st |-> FramerState(SubstrFrom(st.buf, st.lit),
                                 st.cmd \o Substr(st.buf, 0, st.lit), 0)]
        ELSE IF match.digits # <<>>
        THEN [kind |-> "more",
              st |-> FramerState(SubstrFrom(st.buf, match.index + match.length),
                                 st.cmd \o Substr(st.buf, 0, match.index + match.length),
                                 Number(match.digits))]
        ELSE [kind |-> "emit",
              st |-> FramerState(SubstrFrom(st.buf, match.index + match.length),
                                 st.cmd \o Substr(st.buf, 0, match.index),
                                 0)]))

\* what one pass of the while loop does: "stop", "more" (continue), or
\* "emit" (line 378 is reached with st.cmd the complete response)
LoopPass(st0) ==
    Bind(st0, LAMBDA st : Bind(RegexMatch(st.buf), LAMBDA match :
        IF match = NoMatch
        THEN [kind |-> "stop", st |-> st]
        ELSE IF st.lit # 0 /\ st.lit > Len(st.buf)
        THEN [kind |-> "stop", st |-> st]
        ELSE IF st.lit # 0
        THEN [kind |-> "more",
              st |-> FramerState(SubstrFrom(st.buf, st.lit),
                                 st.cmd \o Substr(st.buf, 0, st.lit), 0)]
        ELSE IF match.digits # <<>>
        THEN [kind |-> "more",
              st |-> FramerState(SubstrFrom(st.buf, match.index + match.length),
                                 st.cmd \o Substr(st.buf, 0, match.index + match.length),
                                 Number(match.digits))]
        ELSE [kind |-> "emit",
              st |-> FramerState(SubstrFrom(st.buf, match.index + match.length),
                                 st.cmd \o Substr(st.buf, 0, match.index),
                                 0)]))

\* run the loop up to and including the next call of _addToServerQueue
RECURSIVE RunToEmit(_)
RunToEmit(st) ==
    Bind(LoopPass(st), LAMBDA r : IF r.kind = "more" THEN RunToEmit(r.st) ELSE r)

\* the loop run to its end when no call of _addToServerQueue throws:
\* the final framer state and the responses handed over, in order
RECURSIVE RunLoop(_, _)
RunLoop(st, out0) ==
    Bind(RunToEmit(st), LAMBDA r : Bind(out0, LAMBDA out :
        IF r.kind = "stop" THEN [st |-> r.st, out |-> out]
        ELSE RunLoop(FramerState(r.st.buf, <<>>, r.st.lit), Append(out, r.st.cmd))))

\* lines 347-381 on the framer state for one chunk
FrameChunk(st, chunk) == RunLoop(FramerState(st.buf \o chunk, st.cmd, st.lit), <<>>)

-----------------------------------------------------------------------------
(* The parser collaborator (imapHandler.parser) on the response texts of   *)
(* the engine specification.  A response text is a sequence of tokens:     *)
(* the tag ("*", or "W" and a digit), the command, then attributes: "[C]"  *)
(* is an atom with the section C, "txt" is a TEXT attribute, any other     *)
(* token is a plain atom.  Anything else makes the parser throw.           *)

\* String.prototype.toUpperCase().trim() on the names the model uses
Upper(name) ==
    CASE name = "list" -> "LIST"
      [] name = "exists" -> "EXISTS"
      [] OTHER -> name

Parses(text) ==
    \/ Len(text) >= 2 /\ text[1] = "*"
    \/ Len(text) >= 3 /\ text[1] = "W" /\ text[2] \in Digits

Parse(text) ==
    LET tagged == text[1] = "W"
        rest == IF tagged THEN SubSeq(text, 3, Len(text)) ELSE Tail(text)
    IN  [tag |-> IF tagged THEN "W" \o text[2] ELSE "*",
         command |-> Head(rest),
         attributes |-> Tail(rest),
         nr |-> -1, code |-> "", humanReadable |-> ""]

IsAtom(token) == token # "txt"
HasSection(token) == token = "[C]"

\* _processServerQueue, lines 433-438: "* 17 EXISTS" becomes EXISTS with nr 17
NormalizeNumeric(response) ==
    IF /\ response.tag = "*"
       /\ response.command \in Digits
       /\ response.attributes # <<>>
       /\ IsAtom(response.attributes[1])
    THEN [response EXCEPT !.nr = Number(<<response.command>>),
                          !.command = Upper(response.attributes[1]),
                          !.attributes = Tail(response.attributes)]
    ELSE response

\* _processResponse, lines 581-619: response code and human readable text
ProcessResponse(response) ==
    IF Upper(response.command) \in {"OK", "NO", "BAD", "BYE", "PREAUTH"}
    THEN LET a == response.attributes
             withCode == IF a # <<>> /\ IsAtom(a[1]) /\ HasSection(a[1])
                         THEN [response EXCEPT !.code = "C"] ELSE response
         IN  IF a # <<>> /\ a[Len(a)] = "txt"
             THEN [withCode EXCEPT !.humanReadable = "txt"] ELSE withCode
    ELSE response

\* the synthetic response of a continuation request, lines 419-423
ContinuationResponse ==
    [tag |-> "+", command |-> "", attributes |-> <<>>, nr |-> -1,
     code |-> "", humanReadable |-> ""]

NoResponse ==
    [tag |-> "", command |-> "", attributes |-> <<>>, nr |-> -1,
     code |-> "", humanReadable |-> ""]

-----------------------------------------------------------------------------
(* The client object.  The handlers below are functions on a record `c` of *)
(* the client's fields (and the observation fields the claims need), so    *)
(* that one handler can call another as the code does.                     *)

\* a handler installed on the socket: what it does when the event fires
Handler(kind, id) == [kind |-> kind, id |-> id]
Unset == Handler("unset", 0)                    \* no handler installed yet
Noop == Handler("noop", 0)                      \* () => {}, lines 179-182
Funnel == Handler("funnel", 0)                  \* _onError, lines 149 and 159
RejectConnect == Handler("reject", 0)           \* line 153
OnDataHandler == Handler("onData", 0)           \* line 150
LogoutHandler == Handler("logout", 0)           \* line 201
TearDownHandler(id) == Handler("tearDown", id)  \* line 194, of close() number id

\* this._currentCommand = false
NoCommand ==
    [tag |-> "", accept |-> {}, payloadDefined |-> FALSE, payload |-> <<>>,
     chunks |-> 0, compiles |-> FALSE, data |-> <<>>, compiled |-> FALSE,
     bytes |-> <<>>, errorResponseExpectsEmptyLine |-> "undefined"]

\* what a handler dispatched: the response, where it was routed, the payload
\* attached to a response handed to a command's callback, the strings the
\* handler gave to send, and whether it called onready()
Dispatched(response, route) ==
    [response |-> response, route |-> route, hasPayload |-> FALSE, payload |-> <<>>,
     wrote |-> <<>>, ready |-> FALSE]
NoDispatch == Dispatched(NoResponse, "none")

Pending == [st |-> "pending", response |-> NoResponse, hasPayload |-> FALSE,
            payload |-> <<>>, message |-> "", code |-> ""]

Ok(c) == [c |-> c, thrown |-> FALSE]
Thrown(c) == [c |-> c, thrown |-> TRUE]

\* lines 117 and 126: the timeout of a write of n bytes is
\* TIMEOUT_SOCKET_LOWER_BOUND + Math.floor(n * 0.1)
TIMEOUT_SOCKET_LOWER_BOUND == 10000
TimesSocketMultiplier(n) == n \div 10

\* the string of a chunk with CRLF appended to every chunk
StrAlwaysCRLF(cmd, chunk, crlf) ==
    [tag |-> cmd.tag, chunk |-> chunk, crlf |-> TRUE,
     bytes |-> (IF chunk = 0 THEN 0 ELSE cmd.bytes[chunk]) + 2]

\* a string handed to send: chunk number `chunk` of the compiled command
\* (0: no chunk, the bare line end of line 447), with CRLF appended or not
Str(cmd, chunk, crlf) ==
    [tag |-> cmd.tag, chunk |-> chunk, crlf |-> crlf,
     bytes |-> (IF chunk = 0 THEN 0 ELSE cmd.bytes[chunk]) + (IF crlf THEN 2 ELSE 0)]

\* clearTimeout of the timer a handle names: that timer is no longer pending
ClearTimeout(pending) == IF pending > 0 THEN pending - 1 ELSE 0

\* send without the clearTimeout of line 293
SendKeepsTimer(c, str) ==
    [c EXCEPT !.socketTimeoutTimer = @ + 1,
              !.lastDispatch.wrote =
                  Append(@, [tag |-> str.tag, chunk |-> str.chunk, crlf |-> str.crlf,
                             bytes |-> str.bytes,
                             timeout |-> TIMEOUT_SOCKET_LOWER_BOUND
                                           + TimesSocketMultiplier(str.bytes)])]

\* send, lines 289-301: cancel the pending socket timeout, arm the next one,
\* write to the socket
Send(c, str) ==
    [c EXCEPT !.socketTimeoutTimer = ClearTimeout(@) + 1,
              !.lastDispatch.wrote =
                  Append(@, [tag |-> str.tag, chunk |-> str.chunk, crlf |-> str.crlf,
                             bytes |-> str.bytes,
                             timeout |-> TIMEOUT_SOCKET_LOWER_BOUND
                                           + TimesSocketMultiplier(str.bytes)])]

\* _enterIdle and _clearIdle, lines 552-562
EnterIdle(c) == [c EXCEPT !.idleTimer = TRUE]
ClearIdle(c) == [c EXCEPT !.idleTimer = FALSE]

\* _disableCompression, lines 717-731
DisableCompression(c0) ==
    Bind(c0, LAMBDA c :
        IF ~c.compressed THEN c
        ELSE [c EXCEPT !.compressed = FALSE, !.ondata = c.socketOnData,
                       !.socketOnData = Unset])

\* tearDown of close() number id, lines 170-186
TearDown(c0, id) ==
    Bind(c0, LAMBDA c :
        LET hasSocket == c.readyState # "none"
        IN  [c EXCEPT !.serverQueue = <<>>,
                      !.clientQueue = <<>>,
                      !.currentCommand = NoCommand,
                      !.sinceSend = <<>>,
                      !.idleTimer = FALSE,
                      !.socketTimeoutTimer = ClearTimeout(@),
                      !.onclose = IF hasSocket THEN Noop ELSE @,
                      !.ondata = IF hasSocket THEN Noop ELSE @,
                      !.onerror = IF hasSocket THEN Noop ELSE @,
                      !.closes[id].st = "resolved"])

\* close, lines 168-197; `by` is who awaits the promise ("user", "funnel",
\* "logout") and evt the fatal event of a funnel call
Close(c0, by, evt) ==
    Bind(DisableCompression(c0), LAMBDA c :
        LET id == Len(c.closes) + 1
            c1 == [c EXCEPT !.closes = Append(@, [by |-> by, evt |-> evt, st |-> "pending"])]
        IN  IF c.readyState # "open"
            THEN TearDown(c1, id)
            ELSE [c1 EXCEPT !.onclose = TearDownHandler(id),
                            !.onerror = TearDownHandler(id),
                            !.readyState = "closing"])     \* socket.close()

\* _onError, lines 323-333: close(), and onerror once that close has resolved
OnError(c, evt) == Close(c, "funnel", evt)

\* the completion callback without the 'Error' default of line 259
SettleNoDefault(c0, response) ==
    Bind(c0, LAMBDA c :
        LET cmd == c.currentCommand
        IN  IF c.completion[cmd.tag].st # "pending" THEN c
            ELSE IF Upper(response.command) \in {"NO", "BAD"}
            THEN [c EXCEPT !.completion[cmd.tag] =
                     [Pending EXCEPT !.st = "rejected",
                                     !.message = response.humanReadable,
                                     !.code = response.code]]
            ELSE [c EXCEPT !.completion[cmd.tag] =
                     [Pending EXCEPT !.st = "resolved",
                                     !.response = response,
                                     !.hasPayload = c.lastDispatch.hasPayload,
                                     !.payload = c.lastDispatch.payload]])

\* the command's completion callback, lines 255-267, called by line 509 with
\* the response and the payload attached to it
Settle(c0, response) ==
    Bind(c0, LAMBDA c :
        LET cmd == c.currentCommand
        IN  IF c.completion[cmd.tag].st # "pending" THEN c
            ELSE IF Upper(response.command) \in {"NO", "BAD"}
            THEN [c EXCEPT !.completion[cmd.tag] =
                     [Pending EXCEPT !.st = "rejected",
                                     !.message = IF response.humanReadable = ""
                                                 THEN "Error" ELSE response.humanReadable,
                                     !.code = response.code]]
            ELSE [c EXCEPT !.completion[cmd.tag] =
                     [Pending EXCEPT !.st = "resolved",
                                     !.response = response,
                                     !.hasPayload = c.lastDispatch.hasPayload,
                                     !.payload = c.lastDispatch.payload]])

\* _sendRequest taking the newest command of the queue (pop for shift)
SendRequestNewest(c0) ==
    Bind(c0, LAMBDA c :
        IF c.clientQueue = <<>> THEN EnterIdle(c)
        ELSE LET cmd == c.clientQueue[Len(c.clientQueue)]
                 c1 == [ClearIdle(c) EXCEPT !.canSend = FALSE,
                                            !.currentCommand = cmd,
                                            !.clientQueue = SubSeq(@, 1, Len(@) - 1),
                                            !.sinceSend = <<>>]
             IN  IF ~cmd.compiles
                 THEN OnError(c1, "compiler")
                 ELSE Send([c1 EXCEPT !.currentCommand.compiled = TRUE,
                                      !.currentCommand.data =
                                          [i \in 1..(cmd.chunks - 1) |-> i + 1],
                                      !.written = Append(@, cmd.tag)],
                           Str(cmd, 1, cmd.chunks - 1 = 0)))

\* _sendRequest, lines 524-547
SendRequest(c0) ==
    Bind(c0, LAMBDA c :
        IF c.clientQueue = <<>> THEN EnterIdle(c)
        ELSE LET cmd == Head(c.clientQueue)
                 c1 == [ClearIdle(c) EXCEPT !.canSend = FALSE,
                                            !.currentCommand = cmd,
                                            !.clientQueue = Tail(@),
                                            !.sinceSend = <<>>]
             IN  IF ~cmd.compiles
                 THEN OnError(c1, "compiler")
                 ELSE Send([c1 EXCEPT !.currentCommand.compiled = TRUE,
                                      !.currentCommand.data =
                                          [i \in 1..(cmd.chunks - 1) |-> i + 1],
                                      !.written = Append(@, cmd.tag)],
                           Str(cmd, 1, cmd.chunks - 1 = 0)))

\* the continue callback of _processServerQueue, lines 453-471 (err not given)
Continue(c0, response) ==
    Bind(c0, LAMBDA c :
        LET c1 == IF ~c.connectionReady
                  THEN SendRequest([c EXCEPT !.connectionReady = TRUE,
                                             !.lastDispatch.ready = TRUE,   \* onready()
                                             !.canSend = TRUE])
                  ELSE IF response.tag # "*"
                  THEN SendRequest([c EXCEPT !.canSend = TRUE])
                  ELSE c
        IN  [c1 EXCEPT !.drainTimers = @ + 1])

\* _processServerResponse with the global handler table consulted before the
\* current command's payload buckets
ProcessServerResponseGlobalFirst(c0, response0, callsContinue) ==
    Bind(c0, LAMBDA c : Bind(ProcessResponse(response0), LAMBDA response :
        LET name == Upper(response.command)
            cur == c.currentCommand
            seen == [c EXCEPT !.sinceSend = IF response.tag = "*" /\ cur # NoCommand
                                            THEN Append(@, response) ELSE @]
            routed(route) == [seen EXCEPT !.lastDispatch = Dispatched(response, route)]
            attach == cur.payloadDefined /\ DOMAIN cur.payload # {}
            completes == [routed("completion") EXCEPT
                             !.lastDispatch.hasPayload = attach,
                             !.lastDispatch.payload = IF attach THEN cur.payload ELSE <<>>]
        IN  IF response.tag = "*" /\ name \in c.globalAcceptUntagged
            THEN IF callsContinue /\ cur # NoCommand
                 THEN Continue(Continue(routed("global"), response), response)
                 ELSE Continue(routed("global"), response)
            ELSE IF cur = NoCommand
            THEN Continue(routed("drop"), response)
            ELSE IF cur.payloadDefined /\ response.tag = "*" /\ name \in DOMAIN cur.payload
            THEN Continue([routed("bucket") EXCEPT
                              !.currentCommand.payload[name] = Append(@, response)],
                          response)
            ELSE IF response.tag = cur.tag
            THEN Continue(Settle(completes, response), response)
            ELSE Continue(routed("drop"), response)))

\* _processServerResponse, lines 480-519, with the continue callback; a global
\* handler handed the continue callback calls it or not (callsContinue)
ProcessServerResponse(c0, response0, callsContinue) ==
    Bind(c0, LAMBDA c : Bind(ProcessResponse(response0), LAMBDA response :
        LET name == Upper(response.command)
            cur == c.currentCommand
            seen == [c EXCEPT !.sinceSend = IF response.tag = "*" /\ cur # NoCommand
                                            THEN Append(@, response) ELSE @]
            routed(route) == [seen EXCEPT !.lastDispatch = Dispatched(response, route)]
            \* lines 505-507: the payload is attached when it has a bucket
            attach == cur.payloadDefined /\ DOMAIN cur.payload # {}
            completes == [routed("completion") EXCEPT
                             !.lastDispatch.hasPayload = attach,
                             !.lastDispatch.payload = IF attach THEN cur.payload ELSE <<>>]
        IN  IF cur = NoCommand
            THEN IF response.tag = "*" /\ name \in c.globalAcceptUntagged
                 THEN Continue(routed("global"), response)
                 ELSE Continue(routed("drop"), response)
            ELSE IF cur.payloadDefined /\ response.tag = "*" /\ name \in DOMAIN cur.payload
            THEN Continue([routed("bucket") EXCEPT
                              !.currentCommand.payload[name] = Append(@, response)],
                          response)
            ELSE IF response.tag = "*" /\ name \in c.globalAcceptUntagged
            THEN IF callsContinue
                 THEN Continue(Continue(routed("global"), response), response)
                 ELSE Continue(routed("global"), response)
            ELSE IF response.tag = cur.tag
            THEN Continue(Settle(completes, response), response)
            ELSE Continue(routed("drop"), response)))

\* JavaScript's typeof of an option's value, and the truth of a string
Typeof(value) == IF value = "undefined" THEN "undefined" ELSE "boolean"
Truthy(string) == string # ""

\* the continuation branch of _processServerQueue, lines 441-451; reading
\* .data.length of no command, or of a command that did not compile, throws
ContinuationRequest(c0) ==
    Bind(c0, LAMBDA c :
        LET cur == c.currentCommand
            c1 == [c EXCEPT !.lastDispatch = Dispatched(ContinuationResponse, "continuation"),
                            !.sinceSend = IF cur # NoCommand
                                            THEN Append(@, ContinuationResponse) ELSE @]
        IN  IF cur = NoCommand \/ ~cur.compiled
            THEN Thrown([c1 EXCEPT !.lastDispatch.route = "throw"])
            ELSE IF cur.data # <<>>
            THEN Ok([Send([c1 EXCEPT !.currentCommand.data = Tail(@)],
                          Str(cur, Head(cur.data), Tail(cur.data) = <<>>))
                        EXCEPT !.drainTimers = @ + 1])
            \* line 445: the condition is the string typeof returns
            ELSE IF Truthy(Typeof(cur.errorResponseExpectsEmptyLine))
            THEN Ok([Send(c1, Str(cur, 0, TRUE)) EXCEPT !.drainTimers = @ + 1])
            ELSE Ok([c1 EXCEPT !.drainTimers = @ + 1]))

\* _processServerQueue, lines 406-472
ProcessServerQueue(c0, callsContinue) ==
    Bind(c0, LAMBDA c :
        IF c.serverQueue = <<>>
        THEN Ok([c EXCEPT !.processingServerData = FALSE])
        ELSE LET data == Head(c.serverQueue)
                 c1 == [ClearIdle(c) EXCEPT !.serverQueue = Tail(@)]
             IN  IF data # <<>> /\ data[1] = "+"
                 THEN ContinuationRequest(c1)
                 ELSE IF ~Parses(data)
                 THEN Ok(OnError([c1 EXCEPT !.lastDispatch = Dispatched(NoResponse, "parser")],
                                 "parser"))
                 ELSE Ok(ProcessServerResponse(c1, NormalizeNumeric(Parse(data)),
                                               callsContinue)))

\* _addToServerQueue, lines 392-401
AddToServerQueue(c0, cmd, callsContinue) ==
    Bind(c0, LAMBDA c :
        LET c1 == [c EXCEPT !.serverQueue = Append(@, cmd)]
        IN  IF c.processingServerData THEN Ok(c1)
            ELSE ProcessServerQueue([c1 EXCEPT !.processingServerData = TRUE],
                                    callsContinue))

\* the loop of _onData with its calls of _addToServerQueue; an exception
\* thrown below line 378 leaves the loop before line 380
RECURSIVE FrameAndQueue(_, _)
FrameAndQueue(c0, callsContinue) ==
    Bind(c0, LAMBDA c :
    Bind(RunToEmit(FramerState(c.incomingBuffer, c.command, c.literalRemaining)), LAMBDA r :
        LET c1 == [c EXCEPT !.incomingBuffer = r.st.buf, !.command = r.st.cmd,
                            !.literalRemaining = r.st.lit]
        IN  IF r.kind = "stop" THEN c1
            ELSE Bind(AddToServerQueue(c1, r.st.cmd, callsContinue), LAMBDA a :
                     IF a.thrown THEN a.c
                     ELSE FrameAndQueue([a.c EXCEPT !.command = <<>>], callsContinue))))

\* _onData, lines 343-382
OnData(c, chunk, callsContinue) ==
    FrameAndQueue([c EXCEPT !.socketTimeoutTimer = ClearTimeout(@),
                            !.incomingBuffer = @ \o chunk,
                            !.lastDispatch = NoDispatch],
                  callsContinue)

\* enqueueCommand sending at once, without the test of _canSend of line 277
EnqueueCommandUngated(c0, request) ==
    Bind(c0, LAMBDA c :
        LET n == c.tagCounter + 1
            tag == "W" \o ToString(n)
            accept == {Upper(request.acceptUntagged[i]) : i \in 1..Len(request.acceptUntagged)}
            data == [tag |-> tag, accept |-> accept,
                     payloadDefined |-> Len(request.acceptUntagged) # 0,
                     payload |-> [name \in accept |-> <<>>],
                     chunks |-> request.chunks, compiles |-> request.compiles,
                     data |-> <<>>, compiled |-> FALSE, bytes |-> request.bytes,
                     errorResponseExpectsEmptyLine |->
                         request.errorResponseExpectsEmptyLine]
            c1 == [c EXCEPT !.tagCounter = n,
                            !.completion = @ @@ (tag :> Pending),
                            !.clientQueue = Append(@, data)]
        IN  SendRequest(c1))

\* enqueueCommand, lines 238-281
EnqueueCommand(c0, request) ==
    Bind(c0, LAMBDA c :
        LET n == c.tagCounter + 1
            tag == "W" \o ToString(n)
            accept == {Upper(request.acceptUntagged[i]) : i \in 1..Len(request.acceptUntagged)}
            data == [tag |-> tag, accept |-> accept,
                     payloadDefined |-> Len(request.acceptUntagged) # 0,
                     payload |-> [name \in accept |-> <<>>],
                     chunks |-> request.chunks, compiles |-> request.compiles,
                     data |-> <<>>, compiled |-> FALSE, bytes |-> request.bytes,
                     errorResponseExpectsEmptyLine |->
                         request.errorResponseExpectsEmptyLine]
            c1 == [c EXCEPT !.tagCounter = n,
                            !.completion = @ @@ (tag :> Pending),
                            !.clientQueue = Append(@, data)]
        IN  IF c.canSend THEN SendRequest(c1) ELSE c1)

\* what the handler h installed on the socket does for an event
CallHandler(c, h, evt) ==
    CASE h.kind = "funnel" -> OnError(c, evt)
      [] h.kind = "tearDown" -> TearDown(c, h.id)
      [] h.kind = "logout" -> Close(c, "logout", evt)         \* lines 201-203
      [] h.kind = "reject" -> [c EXCEPT !.connectPromise = "rejected"]
      [] OTHER -> c

-----------------------------------------------------------------------------
(* The engine specification: the client as a state machine.  Every action  *)
(* is one run of a handler or of a public method, from the event to the    *)
(* return to the event loop.                                               *)

Client ==
    [incomingBuffer |-> incomingBuffer,
     command |-> command,
     literalRemaining |-> literalRemaining,
     serverQueue |-> serverQueue,
     processingServerData |-> processingServerData,
     connectionReady |-> connectionReady,
     globalAcceptUntagged |-> globalAcceptUntagged,
     clientQueue |-> clientQueue,
     canSend |-> canSend,
     tagCounter |-> tagCounter,
     currentCommand |-> currentCommand,
     idleTimer |-> idleTimer,
     socketTimeoutTimer |-> socketTimeoutTimer,
     compressed |-> compressed,
     socketOnData |-> socketOnData,
     readyState |-> readyState,
     onclose |-> onclose,
     ondata |-> ondata,
     onerror |-> onerror,
     drainTimers |-> drainTimers,
     closes |-> closes,
     completion |-> completion,
     connectPromise |-> connectPromise,
     logoutPromise |-> logoutPromise,
     written |-> written,
     sinceSend |-> sinceSend,
     lastDispatch |-> lastDispatch]

\* the client at the start of a handler (nothing dispatched yet)
Entry == [Client EXCEPT !.lastDispatch = NoDispatch]

Assign(c) ==
    /\ incomingBuffer' = c.incomingBuffer
    /\ command' = c.command
    /\ literalRemaining' = c.literalRemaining
    /\ serverQueue' = c.serverQueue
    /\ processingServerData' = c.processingServerData
    /\ connectionReady' = c.connectionReady
    /\ globalAcceptUntagged' = c.globalAcceptUntagged
    /\ clientQueue' = c.clientQueue
    /\ canSend' = c.canSend
    /\ tagCounter' = c.tagCounter
    /\ currentCommand' = c.currentCommand
    /\ idleTimer' = c.idleTimer
    /\ socketTimeoutTimer' = c.socketTimeoutTimer
    /\ compressed' = c.compressed
    /\ socketOnData' = c.socketOnData
    /\ readyState' = c.readyState
    /\ onclose' = c.onclose
    /\ ondata' = c.ondata
    /\ onerror' = c.onerror
    /\ drainTimers' = c.drainTimers
    /\ closes' = c.closes
    /\ completion' = c.completion
    /\ connectPromise' = c.connectPromise
    /\ logoutPromise' = c.logoutPromise
    /\ written' = c.written
    /\ sinceSend' = c.sinceSend
    /\ lastDispatch' = c.lastDispatch

\* the handler's result becomes the next state (evaluated once)
Becomes(result) == \E c \in {result} : Assign(c)

\* constructor, lines 95-97
FramerInit ==
    /\ incomingBuffer = <<>>
    /\ command = <<>>
    /\ literalRemaining = 0

\* constructor, lines 59-105
EngineInit ==
    /\ serverQueue = <<>>
    /\ processingServerData = FALSE
    /\ connectionReady = FALSE
    /\ globalAcceptUntagged = {}
    /\ clientQueue = <<>>
    /\ canSend = FALSE
    /\ tagCounter = 0
    /\ currentCommand = NoCommand
    /\ idleTimer = FALSE
    /\ socketTimeoutTimer = 0
    /\ compressed = FALSE
    /\ socketOnData = Unset
    /\ readyState = "none"
    /\ onclose = Unset
    /\ ondata = Unset
    /\ onerror = Unset
    /\ drainTimers = 0
    /\ closes = <<>>
    /\ completion = <<>>
    /\ connectPromise = "none"
    /\ logoutPromise = "none"
    /\ written = <<>>
    /\ sinceSend = <<>>
    /\ lastDispatch = NoDispatch
    /\ dataCount = 0

Init ==
    /\ FramerInit
    /\ EngineInit
    /\ stream = <<>>
    /\ delivered = 0
    /\ framed = <<>>
    /\ chunks = 0

\* a reaction of a resolved close() promise has not run yet: the then() of
\* _onError (line 324) or of logout (line 202)
Reacts(cl) == cl.st = "resolved" /\ cl.by \in {"funnel", "logout"}
MicrotaskPending == \E i \in 1..Len(closes) : Reacts(closes[i])

\* promise reactions run before the next event is handled
Idle == ~MicrotaskPending

\* lines 324-332 and 202: onerror(error) is delivered, or logout resolves
RunReaction ==
    /\ \E i \in 1..Len(closes) :
          /\ Reacts(closes[i])
          /\ closes' = [closes EXCEPT ![i].st = "settled"]
          /\ logoutPromise' = IF closes[i].by = "logout" THEN "resolved" ELSE logoutPromise
    /\ lastDispatch' = NoDispatch
    /\ UNCHANGED <<framerVars, streamVars, serverQueue, processingServerData,
                   connectionReady, globalAcceptUntagged, clientQueue, canSend,
                   tagCounter, currentCommand, idleTimer, socketTimeoutTimer,
                   compressed, socketOnData, readyState, onclose, ondata, onerror,
                   drainTimers, completion, connectPromise, written, sinceSend,
                   dataCount>>

\* connect, lines 133-163
Connect ==
    /\ Idle
    /\ readyState = "none"
    /\ Becomes([Entry EXCEPT !.readyState = "connecting",
                             !.onclose = Funnel,
                             !.ondata = OnDataHandler,
                             !.onerror = RejectConnect,
                             !.connectPromise = "pending"])
    /\ UNCHANGED <<streamVars, dataCount>>

\* the socket opens: onopen, lines 157-161
TransportOpen ==
    /\ Idle
    /\ readyState = "connecting"
    /\ Becomes([Entry EXCEPT !.readyState = "open",
                             !.onerror = Funnel,
                             !.connectPromise = IF @ = "pending" THEN "resolved" ELSE @])
    /\ UNCHANGED <<streamVars, dataCount>>

\* the codec, octet by octet: what the server's DEFLATE makes of an octet,
\* and the inflate of line 707
Alphabet ==
    {CR, LF, "*", "+", "#", "W", "OK", "NO", "BAD", "[C]", "txt", "exists"}
    \cup {ToString(n) : n \in 0..9}
Deflated(ch) == "~" \o ch
Deflate(text) == [i \in 1..Len(text) |-> Deflated(text[i])]
Inflated(ch) ==
    IF \E p \in Alphabet : Deflated(p) = ch
    THEN CHOOSE p \in Alphabet : Deflated(p) = ch
    ELSE ch
Inflate(data) == [i \in 1..Len(data) |-> Inflated(data[i])]

\* the handler installed by enableCompression, lines 698-709, with the
\* in-process codec: inflated data goes to the handler captured at line 637
CallDataHandler(c0, data, callsContinue) ==
    Bind(c0, LAMBDA c :
        IF c.ondata.kind = "inflate"
        THEN IF ~c.compressed THEN c
             ELSE IF c.socketOnData.kind = "onData"
             THEN OnData(c, Inflate(data), callsContinue)
             ELSE c
        ELSE IF c.ondata.kind = "onData" THEN OnData(c, data, callsContinue)
        ELSE c)

\* the socket delivers a chunk of what the server sent to ondata: the server
\* deflates what it sends to a client that has turned compression on
TransportData(chunk, callsContinue) ==
    /\ Idle
    /\ readyState \in {"open", "closing"}
    /\ ondata.kind \in {"onData", "inflate"}
    /\ dataCount < MaxData
    /\ dataCount' = dataCount + 1
    /\ Becomes(CallDataHandler(Entry,
                                IF ondata.kind = "inflate" THEN Deflate(chunk) ELSE chunk,
                                callsContinue))
    /\ UNCHANGED streamVars

\* the socket reports an error to onerror, and then closes itself
TransportError ==
    /\ Idle
    /\ readyState \in {"connecting", "open"}
    /\ LET c == CallHandler(Entry, onerror, "transport")
       IN  Becomes([c EXCEPT !.readyState = "closing"])
    /\ UNCHANGED <<streamVars, dataCount>>

\* the socket reports that it has closed to onclose
TransportClose ==
    /\ Idle
    /\ readyState \in {"connecting", "open", "closing"}
    /\ Becomes(CallHandler([Entry EXCEPT !.readyState = "closed"], onclose, "closed"))
    /\ UNCHANGED <<streamVars, dataCount>>

\* the socket timeout armed by send expires, line 294
SocketTimeout ==
    /\ Idle
    /\ socketTimeoutTimer > 0
    /\ Becomes(OnError([Entry EXCEPT !.socketTimeoutTimer = @ - 1], "timeout"))
    /\ UNCHANGED <<streamVars, dataCount>>

\* the idle timer expires: onidle(), line 554
IdleTimeout ==
    /\ Idle
    /\ idleTimer
    /\ Becomes([Entry EXCEPT !.idleTimer = FALSE,
                             !.lastDispatch = Dispatched(NoResponse, "idle")])
    /\ UNCHANGED <<streamVars, dataCount>>

\* a zero-delay timer of lines 449 / 470 runs _processServerQueue
Drain(callsContinue) ==
    /\ Idle
    /\ drainTimers > 0
    /\ Becomes(ProcessServerQueue([Entry EXCEPT !.drainTimers = @ - 1], callsContinue).c)
    /\ UNCHANGED <<streamVars, dataCount>>

\* the requests the caller enqueues: names of untagged responses to collect,
\* the number of chunks the compiler cuts the command into with their byte
\* lengths, whether the compiler accepts the request at all, and the option
\* errorResponseExpectsEmptyLine
Request(acceptUntagged, bytes, compiles, expectsEmptyLine) ==
    [acceptUntagged |-> acceptUntagged, chunks |-> Len(bytes), bytes |-> bytes,
     compiles |-> compiles, errorResponseExpectsEmptyLine |-> expectsEmptyLine]

Requests ==
    { Request(<<>>, <<29>>, TRUE, "undefined"),
      Request(<<"exists">>, <<37, 8>>, TRUE, "true"),
      Request(<<>>, <<13>>, FALSE, "undefined") }

Enqueue(request) ==
    /\ Idle
    /\ tagCounter < MaxCommands
    /\ Becomes(EnqueueCommand(Entry, request))
    /\ UNCHANGED <<streamVars, dataCount>>

\* setHandler, lines 311-313 (handlers are registered before connect())
SetHandler(name) ==
    /\ Idle
    /\ readyState = "none"
    /\ Upper(name) \notin globalAcceptUntagged
    /\ Becomes([Entry EXCEPT !.globalAcceptUntagged = @ \cup {Upper(name)}])
    /\ UNCHANGED <<streamVars, dataCount>>

UserCloses == Cardinality({i \in 1..Len(closes) : closes[i].by = "user"})

\* close() called by the user
CloseByUser ==
    /\ Idle
    /\ UserCloses < MaxUserCloses
    /\ Becomes(Close(Entry, "user", "none"))
    /\ UNCHANGED <<streamVars, dataCount>>

\* logout, lines 199-207 (it needs this.socket)
Logout ==
    /\ Idle
    /\ readyState # "none"
    /\ logoutPromise = "none"
    /\ tagCounter < MaxCommands
    /\ Becomes(EnqueueCommand([Entry EXCEPT !.onclose = LogoutHandler,
                                            !.onerror = LogoutHandler,
                                            !.logoutPromise = "pending"],
                              Request(<<>>, <<9>>, TRUE, "undefined")))
    /\ UNCHANGED <<streamVars, dataCount>>

\* enableCompression, lines 636-710, without a worker; called once, after
\* the tagged OK of COMPRESS
EnableCompression ==
    /\ Idle
    /\ readyState # "none"
    /\ ~compressed
    /\ lastDispatch.route = "completion"
    /\ completion[lastDispatch.response.tag].st = "resolved"
    /\ Becomes([Entry EXCEPT !.socketOnData = ondata,
                             !.compressed = TRUE,
                             !.ondata = Handler("inflate", 0)])
    /\ UNCHANGED <<streamVars, dataCount>>

\* what the server sends: one response per line, one to three lines a chunk
\* (the server answers with the tags of commands the client has enqueued)
TagDigits == {ToString(n) : n \in 1..tagCounter}

Lines ==
    { <<"*", "1", "exists">>, <<"+">>, <<"#">> }
    \cup { <<"W", d, "OK">> : d \in TagDigits }
    \cup { <<"W", d, "NO", "[C]", "txt">> : d \in TagDigits }
    \cup { <<"W", d, "BAD">> : d \in TagDigits }

CRLF == <<CR, LF>>

\* the chunk in which the server's OK of COMPRESS ends, followed by the
\* first octets the server has deflated
CompressBoundaryChunk ==
    <<"W", "1", "OK">> \o CRLF \o Deflate(<<"*", "1", "exists">> \o CRLF)

ServerChunks ==
    { l \o CRLF : l \in Lines }
    \cup { <<"+">> \o CRLF \o <<"*", "1", "exists">> \o CRLF,
           <<"*", "1", "exists">> \o CRLF \o <<"*", "2", "exists">> \o CRLF
               \o <<"W", "1", "OK">> \o CRLF }
    \cup (IF tagCounter >= 1 /\ ondata.kind = "onData"
          THEN {CompressBoundaryChunk} ELSE {})

\* a global handler decides whether to call the continue callback it is given
HandlerChoices == IF globalAcceptUntagged = {} THEN {FALSE} ELSE BOOLEAN

Next ==
    \/ RunReaction
    \/ Connect
    \/ TransportOpen
    \/ \E chunk \in ServerChunks, callsContinue \in HandlerChoices :
          TransportData(chunk, callsContinue)
    \/ TransportError
    \/ TransportClose
    \/ SocketTimeout
    \/ IdleTimeout
    \/ \E callsContinue \in HandlerChoices : Drain(callsContinue)
    \/ \E request \in Requests : Enqueue(request)
    \/ SetHandler("exists")
    \/ CloseByUser
    \/ Logout
    \/ EnableCompression

vars == <<framerVars, streamVars, engineVars>>

Spec == Init /\ [][Next]_vars

-----------------------------------------------------------------------------
(* Framer specification: the server's stream is cut into chunks at         *)
(* arbitrary positions and each chunk is given to the framing loop.        *)

Tokens == { <<"a">>, <<CR>>, <<LF>>, <<"{", "0", "}">>, <<"{", "1", "}">>,
            <<"{", "2", "+", "}">> }
Chars == {"a", "{", "}", "+", "1", CR, LF}

RECURSIVE Flatten(_)
Flatten(ss) == IF ss = <<>> THEN <<>> ELSE Head(ss) \o Flatten(Tail(ss))

SeqsUpTo(S, n) == UNION {[1..k -> S] : k \in 0..n}

Streams == {Flatten(ts) : ts \in SeqsUpTo(Tokens, MaxTokens)}
               \cup SeqsUpTo(Chars, MaxChars)

InitFramer ==
    /\ FramerInit
    /\ EngineInit
    /\ stream \in Streams
    /\ delivered = 0
    /\ framed = <<>>
    /\ chunks = 0

\* the transport delivers the next n characters of the stream as one chunk
DeliverChunk(n) ==
    /\ n >= 1
    /\ delivered + n <= Len(stream)
    /\ \E r \in {FrameChunk(FramerState(incomingBuffer, command, literalRemaining),
                           SubSeq(stream, delivered + 1, delivered + n))} :
           /\ incomingBuffer' = r.st.buf
           /\ command' = r.st.cmd
           /\ literalRemaining' = r.st.lit
           /\ framed' = framed \o r.out
    /\ delivered' = delivered + n
    /\ chunks' = IF chunks < 2 THEN chunks + 1 ELSE chunks
    /\ UNCHANGED <<stream, engineVars>>

NextFramer == \E n \in 1..(MaxTokens * 4) : DeliverChunk(n)

SpecFramer == InitFramer /\ [][NextFramer]_vars

-----------------------------------------------------------------------------
(* Framing as the protocol defines it, character by character: a response  *)
(* ends at a line terminator that is outside every literal body and does   *)
(* not directly follow a literal declaration.  `seg` is the text since the *)
(* start of the response or the end of the last literal body.              *)

EndsWithCR(t) == t # <<>> /\ t[Len(t)] = CR
DropLast(t) == SubSeq(t, 1, Len(t) - 1)

\* the start of the run of digits that ends at position i (i + 1 if none)
RECURSIVE DigitsStart(_, _)
DigitsStart(t, i) ==
    IF i >= 1 /\ t[i] \in Digits THEN DigitsStart(t, i - 1) ELSE i + 1

\* t ends with {N} or {N+}: <<N>>, otherwise <<>>
DeclaredLiteral(t) ==
    IF t = <<>> \/ t[Len(t)] # "}" THEN <<>>
    ELSE LET q == IF Len(t) >= 2 /\ t[Len(t) - 1] = "+" THEN Len(t) - 2 ELSE Len(t) - 1
             d == DigitsStart(t, q)
         IN  IF d <= q /\ d >= 2 /\ t[d - 1] = "{"
             THEN <<Number(SubSeq(t, d, q))>> ELSE <<>>

RECURSIVE RefScan(_, _, _, _, _, _)
RefScan(s, i, acc, seg, lit, out) ==
    IF i > Len(s) THEN out
    ELSE IF lit > 0 THEN RefScan(s, i + 1, Append(acc, s[i]), <<>>, lit - 1, out)
    ELSE IF s[i] # LF THEN RefScan(s, i + 1, Append(acc, s[i]), Append(seg, s[i]), 0, out)
    ELSE LET line == IF EndsWithCR(seg) THEN DropLast(seg) ELSE seg
             decl == DeclaredLiteral(line)
         IN  IF decl # <<>>
             THEN RefScan(s, i + 1, Append(acc, LF), <<>>, decl[1], out)
             ELSE RefScan(s, i + 1, <<>>, <<>>, 0,
                          Append(out, IF EndsWithCR(seg) THEN DropLast(acc) ELSE acc))

Responses(s) == RefScan(s, 1, <<>>, <<>>, 0, <<>>)

Delivered == SubSeq(stream, 1, delivered)

-----------------------------------------------------------------------------
(* Claims about the engine, checked under Spec.                            *)

\* the number k of the tag W<k>
TagNumber(tag) == CHOOSE k \in 1..tagCounter : tag = "W" \o ToString(k)

\* the untagged responses called `name` dispatched since the current command
\* was sent
Matching(name) == SelectSeq(sinceSend, LAMBDA r : Upper(r.command) = name)

\* nothing is left to run: the socket has reported its close, no promise
\* reaction is pending and no timer is armed
Quiescent ==
    /\ readyState = "closed"
    /\ Idle
    /\ socketTimeoutTimer = 0
    /\ ~idleTimer
    /\ drainTimers = 0

OnErrorDelivered == {i \in 1..Len(closes) : closes[i].by = "funnel" /\ closes[i].st = "settled"}

\* C1: while the current command has been written and its completion is still
\* pending, a step pops or writes another command only if that same step
\* dispatches the command's own tagged response to its completion.
C1_AtMostOneInFlight ==
    [][ ( /\ currentCommand # NoCommand
          /\ currentCommand.compiled
          /\ completion[currentCommand.tag].st = "pending"
          /\ \/ written' # written
             \/ currentCommand' \notin {currentCommand, NoCommand}
                /\ currentCommand'.tag # currentCommand.tag )
        => /\ lastDispatch'.route = "completion"
           /\ lastDispatch'.response.tag = currentCommand.tag ]_vars

\* C2: every command gets a terminal outcome.  A completion can only be settled
\* through the command's record, which the client holds in its queue or as the
\* current command: a pending completion whose record the client has dropped
\* stays pending for ever.
C2_EveryCommandSettles ==
    \A t \in DOMAIN completion :
        completion[t].st = "pending"
            => \/ currentCommand.tag = t
               \/ \E i \in 1..Len(clientQueue) : clientQueue[i].tag = t

C6_UntaggedCollection ==
    /\ [] ( currentCommand # NoCommand =>
              /\ currentCommand.payloadDefined = (currentCommand.accept # {})
              /\ DOMAIN currentCommand.payload = currentCommand.accept
              /\ \A name \in currentCommand.accept :
                    currentCommand.payload[name] = Matching(name) )
    /\ [][ /\ (lastDispatch'.route = "global" /\ currentCommand # NoCommand)
                => Upper(lastDispatch'.response.command) \notin currentCommand.accept
           /\ lastDispatch'.route = "completion" =>
                /\ lastDispatch'.hasPayload = (currentCommand.accept # {})
                /\ lastDispatch'.payload =
                       IF currentCommand.accept = {} THEN <<>>
                       ELSE [name \in currentCommand.accept |-> Matching(name)]
                /\ ( /\ completion[currentCommand.tag].st = "pending"
                     /\ completion'[currentCommand.tag].st = "resolved" )
                   => /\ completion'[currentCommand.tag].hasPayload = lastDispatch'.hasPayload
                      /\ completion'[currentCommand.tag].payload = lastDispatch'.payload ]_vars

\* W1 resolved with the bucket EXISTS holding "* 1 EXISTS" and "* 2 EXISTS" in
\* that order, although a global handler is registered for EXISTS
C6_Witness ==
    /\ "EXISTS" \in globalAcceptUntagged
    /\ "W1" \in DOMAIN completion
    /\ completion["W1"].st = "resolved"
    /\ completion["W1"].hasPayload
    /\ DOMAIN completion["W1"].payload = {"EXISTS"}
    /\ Len(completion["W1"].payload["EXISTS"]) = 2
    /\ completion["W1"].payload["EXISTS"][1].nr = 1
    /\ completion["W1"].payload["EXISTS"][2].nr = 2

\* a tagged NO or BAD is dispatched to the current command, whose completion
\* is pending
RejectedByServer ==
    /\ lastDispatch'.route = "completion"
    /\ Upper(lastDispatch'.response.command) \in {"NO", "BAD"}
    /\ completion[currentCommand.tag].st = "pending"

\* only that command's completion is rejected, with the code and the text
OnlyThatCommandRejected ==
    /\ completion'[currentCommand.tag] =
           [Pending EXCEPT !.st = "rejected",
                           !.message = IF "txt" \in Range(lastDispatch'.response.attributes)
                                       THEN "txt" ELSE "Error",
                           !.code = IF "[C]" \in Range(lastDispatch'.response.attributes)
                                    THEN "C" ELSE ""]
    /\ \A t \in DOMAIN completion \ {currentCommand.tag} : completion'[t] = completion[t]

\* can_send is true, or the next queued command has been sent
ConnectionUsable ==
    IF clientQueue = <<>>
    THEN canSend' /\ written' = written
    ELSE /\ written' = Append(written, Head(clientQueue).tag)
         /\ currentCommand'.tag = Head(clientQueue).tag
         /\ clientQueue' = Tail(clientQueue)

\* C7 as stated: a tagged NO or BAD to the current command rejects only that
\* command's completion, close() is not invoked, can_send becomes true and the
\* next queued command, if any, is sent.
C7_RejectionIsNotFatal ==
    [][ RejectedByServer =>
          /\ OnlyThatCommandRejected
          /\ closes' = closes
          /\ ConnectionUsable ]_vars

\* C7 amended: as C7, unless the compiler throws on the next queued command,
\* which the same step takes from the queue: then close() is invoked once, by
\* the error funnel, for that compiler error.
C7_RejectionIsNotFatalUnlessNextFailsToCompile ==
    [][ RejectedByServer =>
          /\ OnlyThatCommandRejected
          /\ IF clientQueue # <<>> /\ ~Head(clientQueue).compiles
             THEN /\ Len(closes') = Len(closes) + 1
                  /\ SubSeq(closes', 1, Len(closes)) = closes
                  /\ closes'[Len(closes')].by = "funnel"
                  /\ closes'[Len(closes')].evt = "compiler"
                  /\ currentCommand'.tag \in {Head(clientQueue).tag, ""}
                  /\ written' = written
             ELSE /\ closes' = closes
                  /\ ConnectionUsable ]_vars

\* W1 rejected with the code and the text of "W1 NO [C] txt", W2 written
\* after it, and close() never invoked
C7_Witness ==
    /\ "W1" \in DOMAIN completion
    /\ completion["W1"].st = "rejected"
    /\ completion["W1"].code = "C"
    /\ completion["W1"].message = "txt"
    /\ written = <<"W1", "W2">>
    /\ closes = <<>>

\* C8: after a fatal event, which calls close() through the funnel, on_error
\* is eventually delivered: once nothing is left to run it has been delivered.
C8_OnErrorFollowsFatalEvent ==
    (Quiescent /\ \E i \in 1..Len(closes) : closes[i].by = "funnel")
        => OnErrorDelivered # {}

\* C9: on_error is delivered at most once.
C9_OnErrorAtMostOnce == Cardinality(OnErrorDelivered) <= 1

\* C10: every call of close() resolves once the transport has reported its
\* close: when nothing is left to run no close() promise is pending.
C10_EveryCloseResolves ==
    Quiescent => \A i \in 1..Len(closes) : closes[i].st # "pending"

\* C11: logout() puts LOGOUT behind the commands already queued, and its
\* promise resolves once the transport has closed, whatever happened between
\* logout() and that close: the step in which the transport reports its
\* close while the promise of logout() is pending runs, or has been preceded
\* by, the close() of logout's handler, which that step resolves; no later
\* event can, the transport being closed.
C11_LogoutResolves ==
    /\ [][ (logoutPromise = "pending" /\ readyState # "closed" /\ readyState' = "closed")
             => \E i \in 1..Len(closes') :
                   closes'[i].by = "logout" /\ closes'[i].st = "resolved" ]_vars
    /\ [][ (logoutPromise = "none" /\ logoutPromise' = "pending") =>
             /\ tagCounter' = tagCounter + 1
             /\ IF canSend
                THEN /\ clientQueue = <<>> /\ clientQueue' = <<>>
                     /\ currentCommand'.tag = "W" \o ToString(tagCounter')
                ELSE /\ Len(clientQueue') = Len(clientQueue) + 1
                     /\ SubSeq(clientQueue', 1, Len(clientQueue)) = clientQueue
                     /\ clientQueue'[Len(clientQueue')].tag = "W" \o ToString(tagCounter') ]_vars

\* a response is dispatched to a handler, a bucket or a completion, or dropped,
\* for the first time
FirstDispatch ==
    /\ ~connectionReady
    /\ lastDispatch'.route \in {"global", "drop", "bucket", "completion"}

\* onready() is called only by the first dispatch, and the connection stays
\* ready: the ready signal is emitted once
ReadyOnce ==
    /\ lastDispatch'.ready => FirstDispatch
    /\ connectionReady' # connectionReady => FirstDispatch
    /\ connectionReady => connectionReady'

\* C12 as stated: nothing is written before the first response is dispatched;
\* that dispatch makes the connection ready, emits ready, sets can_send and
\* sends the head of the client queue, if any; ready is emitted once.
C12_ReadinessGate ==
    /\ [] (~connectionReady => written = <<>> /\ ~canSend /\ currentCommand = NoCommand)
    /\ [][ /\ FirstDispatch =>
                /\ connectionReady'
                /\ lastDispatch'.ready
                /\ ConnectionUsable
           /\ ReadyOnce ]_vars

\* C12 amended: as C12, unless the compiler throws on the head of the client
\* queue: the first dispatch then takes it from the queue, writes nothing,
\* leaves can_send false and calls the error funnel for the compiler error.
C12_ReadinessGateUnlessHeadFailsToCompile ==
    /\ [] (~connectionReady => written = <<>> /\ ~canSend /\ currentCommand = NoCommand)
    /\ [][ /\ FirstDispatch =>
                /\ connectionReady'
                /\ lastDispatch'.ready
                /\ IF clientQueue # <<>> /\ ~Head(clientQueue).compiles
                   THEN /\ written' = written
                        /\ ~canSend'
                        /\ clientQueue' \in {Tail(clientQueue), <<>>}
                        /\ Len(closes') = Len(closes) + 1
                        /\ closes'[Len(closes')].by = "funnel"
                        /\ closes'[Len(closes')].evt = "compiler"
                   ELSE ConnectionUsable
           /\ ReadyOnce ]_vars

\* the greeting has just been dispatched and has emitted ready: of the two
\* commands enqueued before it, W1 has been written and W2 is still queued
C12_Witness ==
    /\ lastDispatch.ready
    /\ lastDispatch.response.tag = "*"
    /\ written = <<"W1">>
    /\ Len(clientQueue) = 1
    /\ clientQueue[1].tag = "W2"

\* the connection is ready and open, nothing is queued, no command awaits its
\* tagged response, and close() has not been called
IdleCondition ==
    /\ connectionReady
    /\ readyState = "open"
    /\ closes = <<>>
    /\ clientQueue = <<>>
    /\ currentCommand # NoCommand => completion[currentCommand.tag].st # "pending"

\* C13: while the connection is ready with nothing queued and nothing in
\* flight, idle is eventually emitted unless a command is enqueued or the
\* connection is closed first: as long as that condition lasts, the armed
\* idle timer stays armed until it fires, whatever the server sends.
C13_IdleEventuallyEmitted ==
    [][ (IdleCondition /\ idleTimer /\ IdleCondition')
           => (idleTimer' \/ lastDispatch'.route = "idle") ]_vars

\* the octets the framer holds: its buffer, the command it is assembling and
\* the framed responses waiting in the server queue
FramerOctets ==
    Range(incomingBuffer) \cup Range(command)
        \cup UNION {Range(serverQueue[i]) : i \in 1..Len(serverQueue)}

\* C14: the framer sees the server's plaintext, however the stream is cut
\* into chunks around the enabling of compression: once compression is
\* enabled, the framer holds no octet the server has deflated and the client
\* has not inflated.
C14_CompressionTransparent ==
    compressed => \A p \in Alphabet : Deflated(p) \notin FramerOctets

\* the `+` responses among those dispatched since the current command was sent
Continuations(responses) == Len(SelectSeq(responses, LAMBDA r : r.tag = "+"))

\* the chunks of commands among the strings a handler gave to send
ChunksWritten(wrote) == SelectSeq(wrote, LAMBDA w : w.chunk >= 1)

\* C15: the first chunk of a command is written when the command is sent and
\* chunk i+1 only by the dispatch of the i-th `+` since then, each chunk once,
\* in the compiler's order, with CRLF appended to the last chunk only; so the
\* chunks written for the current command are 1 + the `+` dispatched since it
\* was sent, or all its chunks if that is less.
C15_ContinuationOrdering ==
    /\ [] ( currentCommand.compiled =>
              \E sent \in {currentCommand.chunks - Len(currentCommand.data)} :
                 /\ sent >= 1
                 /\ sent <= 1 + Continuations(sinceSend)
                 /\ sent < currentCommand.chunks => sent = 1 + Continuations(sinceSend)
                 /\ currentCommand.data =
                        [i \in 1..(currentCommand.chunks - sent) |-> sent + i] )
    /\ [][ /\ written' # written =>
                /\ ChunksWritten(lastDispatch'.wrote) =
                       <<[tag |-> currentCommand'.tag, chunk |-> 1,
                          crlf |-> currentCommand'.chunks = 1,
                          bytes |-> currentCommand'.bytes[1]
                                      + (IF currentCommand'.chunks = 1 THEN 2 ELSE 0),
                          timeout |-> lastDispatch'.wrote[Len(lastDispatch'.wrote)].timeout]>>
                /\ sinceSend' = <<>>
           /\ (written' = written /\ lastDispatch'.route = "continuation") =>
                \E i \in {Continuations(sinceSend')} :
                   IF i + 1 <= currentCommand.chunks
                   THEN /\ Len(lastDispatch'.wrote) = 1
                        /\ lastDispatch'.wrote[1].tag = currentCommand.tag
                        /\ lastDispatch'.wrote[1].chunk = i + 1
                        /\ lastDispatch'.wrote[1].crlf = (i + 1 = currentCommand.chunks)
                        /\ lastDispatch'.wrote[1].bytes =
                               currentCommand.bytes[i + 1]
                                 + (IF i + 1 = currentCommand.chunks THEN 2 ELSE 0)
                   ELSE ChunksWritten(lastDispatch'.wrote) = <<>>
           /\ (written' = written /\ lastDispatch'.route # "continuation") =>
                ChunksWritten(lastDispatch'.wrote) = <<>> ]_vars

\* W1 was compiled into two chunks, the first was written without CRLF when
\* W1 was sent, and the dispatch of the first `+` has just written the second
\* one, with CRLF
C15_Witness ==
    /\ lastDispatch.route = "continuation"
    /\ currentCommand.tag = "W1"
    /\ currentCommand.chunks = 2
    /\ Continuations(sinceSend) = 1
    /\ Len(lastDispatch.wrote) = 1
    /\ lastDispatch.wrote[1].chunk = 2
    /\ lastDispatch.wrote[1].crlf

\* C16: when a `+` is dispatched and the current command has no chunk left, a
\* bare CRLF is written if and only if the command was enqueued with the
\* option errorResponseExpectsEmptyLine; nothing is written otherwise.
C16_EmptyLineOnlyIfExpected ==
    [][ ( /\ lastDispatch'.route = "continuation"
          /\ currentCommand.compiled
          /\ currentCommand.data = <<>> )
        => lastDispatch'.wrote =
               IF currentCommand.errorResponseExpectsEmptyLine = "true"
               THEN <<[tag |-> currentCommand.tag, chunk |-> 0, crlf |-> TRUE, bytes |-> 2,
                       timeout |-> TIMEOUT_SOCKET_LOWER_BOUND]>>
               ELSE <<>> ]_vars

\* C17: once the connection is ready, the dispatch of a `+` or of an untagged
\* response leaves can_send, the client queue and the current command's
\* identity unchanged; can_send goes from false to true only when a tagged
\* response is dispatched, and for a command in flight only when its own
\* tagged response is.
C17_FrameEffect ==
    [][ /\ (connectionReady /\ lastDispatch'.response.tag \in {"+", "*"}) =>
              /\ canSend' = canSend
              /\ clientQueue' = clientQueue
              /\ currentCommand'.tag = currentCommand.tag
        /\ (connectionReady /\ ~canSend /\ canSend') =>
              /\ lastDispatch'.route \in {"completion", "drop"}
              /\ lastDispatch'.response.tag \notin {"+", "*", ""}
        /\ ( /\ connectionReady /\ ~canSend /\ canSend'
             /\ currentCommand.compiled
             /\ completion[currentCommand.tag].st = "pending" ) =>
              /\ lastDispatch'.route = "completion"
              /\ lastDispatch'.response.tag = currentCommand.tag ]_vars

\* an inbound chunk is delivered to the framer (_onData), directly or through
\* the inflater
DeliveredToFramer ==
    /\ dataCount' # dataCount
    /\ \/ ondata.kind = "onData"
       \/ ondata.kind = "inflate" /\ compressed /\ socketOnData.kind = "onData"

\* the error funnel is called for an expired socket timeout
TimeoutIsFatal ==
    /\ Len(closes') = Len(closes) + 1
    /\ closes'[Len(closes')].evt = "timeout"

\* C18: every write cancels the pending socket timeout and arms one of
\* TIMEOUT_SOCKET_LOWER_BOUND + floor(bytes * TIMEOUT_SOCKET_MULTIPLIER) ms;
\* every inbound chunk delivered to the framer cancels it; so at most one
\* socket timeout is pending, it is pending only from a write until the next
\* inbound chunk, and only a pending one makes a timeout fatal.
C18_SocketTimeoutDiscipline ==
    /\ [] (socketTimeoutTimer <= 1)
    /\ [][ /\ lastDispatch'.wrote # <<>> =>
                /\ socketTimeoutTimer' = 1
                /\ \A k \in 1..Len(lastDispatch'.wrote) :
                      lastDispatch'.wrote[k].timeout =
                          TIMEOUT_SOCKET_LOWER_BOUND
                            + TimesSocketMultiplier(lastDispatch'.wrote[k].bytes)
           /\ (DeliveredToFramer /\ lastDispatch'.wrote = <<>>) => socketTimeoutTimer' = 0
           /\ socketTimeoutTimer' > socketTimeoutTimer => lastDispatch'.wrote # <<>>
           /\ TimeoutIsFatal => (socketTimeoutTimer = 1 /\ ~DeliveredToFramer) ]_vars

\* W1 has been written, which armed the socket timeout, and an untagged
\* response that arrived before its tagged one has cancelled it
C18_Witness ==
    /\ written = <<"W1">>
    /\ completion["W1"].st = "pending"
    /\ currentCommand.tag = "W1"
    /\ lastDispatch.route \in {"bucket", "drop", "global"}
    /\ lastDispatch.response.tag = "*"
    /\ lastDispatch.wrote = <<>>
    /\ socketTimeoutTimer = 0
    /\ closes = <<>>

\* a promise of close() resolves in this step
CloseResolves ==
    \E i \in 1..Len(closes') :
        /\ closes'[i].st = "resolved"
        /\ i <= Len(closes) => closes[i].st = "pending"

\* C19: when close() resolves, both queues are empty, no command is current,
\* the idle timer and the socket timeout are cancelled, compression is off
\* and its handler gone, every handler of the transport is a no-op, and the
\* transport, if it was open, has been asked to close.
C19_TornDownWhenCloseResolves ==
    [][ CloseResolves =>
          /\ serverQueue' = <<>>
          /\ clientQueue' = <<>>
          /\ currentCommand' = NoCommand
          /\ ~idleTimer'
          /\ socketTimeoutTimer' = 0
          /\ ~compressed'
          /\ socketOnData' = Unset
          /\ readyState' # "open"
          /\ readyState' # "none" =>
                (onclose' = Noop /\ ondata' = Noop /\ onerror' = Noop) ]_vars

\* C20: after the tagged response of the current command has been dispatched
\* and until the next command is sent, no command is current, so an untagged
\* response arriving then goes to its global handler, if it has one, even if
\* the finished command accepted its name, and is dropped otherwise.
C20_NoCurrentAfterTaggedResponse ==
    /\ [] ( currentCommand # NoCommand => completion[currentCommand.tag].st = "pending" )
    /\ [][ ( /\ lastDispatch'.response.tag = "*"
             /\ lastDispatch'.route \in {"global", "drop", "bucket"}
             /\ connectionReady
             /\ currentCommand = NoCommand \/ completion[currentCommand.tag].st # "pending" )
           => /\ lastDispatch'.route =
                    IF Upper(lastDispatch'.response.command) \in globalAcceptUntagged
                    THEN "global" ELSE "drop"
              /\ currentCommand' = currentCommand
              /\ completion' = completion ]_vars

\* the response _processServerQueue makes of a framed line
ResponseOf(data) ==
    IF data # <<>> /\ data[1] = "+" THEN ContinuationResponse
    ELSE IF ~Parses(data) THEN NoResponse
    ELSE ProcessResponse(NormalizeNumeric(Parse(data)))

\* this step takes a response from the server queue and dispatches it
Dispatches == lastDispatch'.route \notin {"none", "idle"}

\* C21: framed responses are dispatched in the order the framer emitted them,
\* each once, and at most one drain step is pending at a time, whether or not
\* a global handler calls the continue callback it was handed.
C21_DispatchOrder ==
    /\ [] (drainTimers <= 1)
    /\ [][ (Dispatches /\ serverQueue # <<>>) =>
              /\ lastDispatch'.response = ResponseOf(Head(serverQueue))
              /\ serverQueue' \in {Tail(serverQueue), <<>>} ]_vars

\* C22: every framed response put on the server queue is eventually
\* dispatched, or discarded by close(): whenever the processing flag is set
\* and close() has not been called, a drain is scheduled, whatever kind of
\* response was dispatched last.
C22_ServerQueueProgress ==
    (processingServerData /\ closes = <<>>) => drainTimers > 0

\* C23: idle is never emitted while a command awaits its tagged response or
\* while a command is queued: whenever the idle timer is armed, can_send is
\* true, the client queue is empty and no command that was sent lacks its
\* tagged response.
C23_IdleOnlyWhenNothingInFlight ==
    idleTimer =>
        /\ canSend
        /\ clientQueue = <<>>
        /\ \A i \in 1..Len(written) : completion[written[i]].st # "pending"

\* C24: once the tagged response of a command has been dispatched, a `+`
\* dispatched before another command is sent writes nothing: none of that
\* command's unsent chunks and no empty line.
C24_NothingWrittenForFinishedCommand ==
    [][ ( /\ lastDispatch'.response.tag = "+"
          /\ currentCommand # NoCommand
          /\ completion[currentCommand.tag].st # "pending" )
        => lastDispatch'.wrote = <<>> ]_vars

\* close() has completed its teardown
TornDown == \E i \in 1..Len(closes) : closes[i].st \in {"resolved", "settled"}

\* C25: after close() has completed its teardown no later operation on the
\* client writes to the transport or arms a timer; enqueueCommand called
\* after it does not send its command.
C25_NothingAfterClose ==
    [][ TornDown =>
          /\ lastDispatch'.wrote = <<>>
          /\ written' = written
          /\ socketTimeoutTimer' <= socketTimeoutTimer
          /\ idleTimer' => idleTimer ]_vars

=============================================================================
